---- MODULE Spec2Model ----
(***************************************************************************)
(* A model of scholar-to-coa.py: the pipeline that extracts the unique     *)
(* co-authors of a Google Scholar profile, looks up an affiliation for     *)
(* each of them and writes the NSF COA table.                              *)
(*                                                                         *)
(* Python strings are sequences of one-character strings, so that split,   *)
(* join, int() and the ordering of strings are computed, not assumed.      *)
(* A dict is a sequence of <<key, value>> pairs in insertion order.        *)
(*                                                                         *)
(* Three specifications share the variables:                               *)
(*   SpecClean    _nsf_name_cleanup applied to a list of names             *)
(*   SpecExtract  _get_unique_coauthors applied to a publication list      *)
(*   Spec         _get_validated_affiliations followed by save_coa_tsv     *)
(***************************************************************************)
EXTENDS Integers, Sequences, FiniteSets

VARIABLES
    pc,                          \* position of the running function
    coauthors,                   \* _nsf_name_cleanup: the argument
    cleaned_coauthors,           \* _nsf_name_cleanup: the list returned
    papers,                      \* _get_unique_coauthors: the argument
    year_cutoff,                 \* _get_unique_coauthors: the argument
    my_name,                     \* _get_unique_coauthors: the argument
    filtered_papers,             \* _get_unique_coauthors: local
    paper_i,                     \* position of the for loop over filtered_papers
    unique_coauthors,            \* _get_unique_coauthors: local
    coauthors_with_years,        \* the dict _get_unique_coauthors returns,
                                 \* the argument of _get_validated_affiliations
    year_type,                   \* how the data source types a pub_year: "str" or "int"
    idx,                         \* position of the for loop over coauthors_with_years
    validated_affiliation,       \* _get_validated_affiliations: local
    latest_pub_year,             \* _get_validated_affiliations: local
    examined,                    \* history: the candidates filled for this co-author
    outcome,                     \* history: how each finished lookup ended
    events,                      \* history: the searches issued and the sleeps taken
    coauthors_with_affiliations, \* the dict built by _get_validated_affiliations
    rows                         \* the rows written by save_coa_tsv

cleanVars == <<coauthors, cleaned_coauthors>>
extractVars == <<papers, year_cutoff, my_name, filtered_papers, paper_i,
                 unique_coauthors>>
validateVars == <<year_type, idx, validated_affiliation, latest_pub_year, examined,
                  outcome, events, coauthors_with_affiliations, rows>>
vars == <<pc, cleanVars, extractVars, coauthors_with_years, validateVars>>

----------------------------------------------------------------------------
(* Bounds of the model *)

MaxNames == 2
MaxNameLen == 3
MaxPapers == 2
MaxCoauthors == 2
MaxCandidates == 2
MaxPubs == 2

----------------------------------------------------------------------------
(* Python strings *)

\* the strings of length at most n over the characters of cs
RECURSIVE StringsUpTo(_, _)
StringsUpTo(cs, n) ==
    IF n = 0 THEN {<<>>}
    ELSE LET shorter == StringsUpTo(cs, n - 1)
         IN  shorter \cup {Append(s, c) : s \in shorter, c \in cs}

\* the sequences of length at most n over the elements of S
SeqsUpTo(S, n) == UNION {[1..k -> S] : k \in 0..n}

StartsWith(s, prefix) ==
    /\ Len(prefix) <= Len(s)
    /\ SubSeq(s, 1, Len(prefix)) = prefix

\* str.split(sep): cur is the piece being read
RECURSIVE SplitFrom(_, _, _)
SplitFrom(s, sep, cur) ==
    IF s = <<>> THEN <<cur>>
    ELSE IF StartsWith(s, sep)
         THEN <<cur>> \o SplitFrom(SubSeq(s, Len(sep) + 1, Len(s)), sep, <<>>)
         ELSE SplitFrom(Tail(s), sep, Append(cur, Head(s)))

Split(s, sep) == SplitFrom(s, sep, <<>>)

\* sep.join(parts)
RECURSIVE Join(_, _)
Join(sep, parts) ==
    IF parts = <<>> THEN <<>>
    ELSE IF Len(parts) = 1 THEN parts[1]
         ELSE parts[1] \o sep \o Join(sep, Tail(parts))

Digits == <<"0", "1", "2", "3", "4", "5", "6", "7", "8", "9">>

DigitValue(c) == (CHOOSE i \in 1..10 : Digits[i] = c) - 1

\* int(s) of a string of decimal digits
RECURSIVE ParseInt(_)
ParseInt(s) ==
    IF s = <<>> THEN 0
    ELSE 10 * ParseInt(SubSeq(s, 1, Len(s) - 1)) + DigitValue(s[Len(s)])

\* ord(c) of the characters that occur in a pub_year
Ord(c) ==
    CASE c = "U" -> 85
      [] c = "k" -> 107
      [] c = "n" -> 110
      [] c = "o" -> 111
      [] c = "w" -> 119
      [] OTHER   -> 48 + DigitValue(c)

\* a < b on str: lexicographic on the code points
RECURSIVE StrLess(_, _)
StrLess(a, b) ==
    IF b = <<>> THEN FALSE
    ELSE IF a = <<>> THEN TRUE
    ELSE IF Head(a) = Head(b) THEN StrLess(Tail(a), Tail(b))
    ELSE Ord(Head(a)) < Ord(Head(b))

----------------------------------------------------------------------------
(* _nsf_name_cleanup *)

Space == <<" ">>
CommaSpace == <<",", " ">>

\* one iteration of the loop: the name appended for coauthor
ReorderedNameFirstToken(coauthor) ==
    LET name_parts == Split(coauthor, Space)
    IN  IF Len(name_parts) > 1
        THEN name_parts[1] \o CommaSpace \o Join(Space, Tail(name_parts))
        ELSE coauthor

ReorderedName(coauthor) ==
    LET name_parts == Split(coauthor, Space)
    IN  IF Len(name_parts) > 1
        THEN name_parts[Len(name_parts)] \o CommaSpace
             \o Join(Space, SubSeq(name_parts, 1, Len(name_parts) - 1))
        ELSE coauthor

nsf_name_cleanup(names) == [i \in 1..Len(names) |-> ReorderedName(names[i])]

JaneQPublic == <<"J", " ", "Q", " ", "P">>
PublicJaneQ == <<"P", ",", " ", "J", " ", "Q">>
Madonna == <<"M">>

\* the names given to _nsf_name_cleanup
CleanupNames == StringsUpTo({"a", " "}, MaxNameLen) \cup {JaneQPublic, Madonna}

----------------------------------------------------------------------------
(* Values shared by the stages *)

\* a key that a dict of the data source does not have
Missing == <<"<missing>">>

\* Python's None
None == <<"<None>">>

Unknown == <<"U", "n", "k", "n", "o", "w", "n">>
UnknownInstitution == <<"Unknown Institution">>

Y2024 == <<"2", "0", "2", "4">>
Y2025 == <<"2", "0", "2", "5">>

\* datetime.datetime.now().year
current_year == 2025

\* a dict is a sequence of <<key, value>> pairs in insertion order
DictKeys(d) == [i \in 1..Len(d) |-> d[i][1]]

DictHas(d, k) == \E i \in 1..Len(d) : d[i][1] = k

DictGet(d, k) == d[CHOOSE i \in 1..Len(d) : d[i][1] = k][2]

\* d[k] = v: a new key goes last, a known key keeps its place
DictSet(d, k, v) ==
    IF DictHas(d, k)
    THEN [i \in 1..Len(d) |-> IF d[i][1] = k THEN <<k, v>> ELSE d[i]]
    ELSE Append(d, <<k, v>>)

----------------------------------------------------------------------------
(* _get_unique_coauthors *)

AndSep == <<" ", "a", "n", "d", " ">>

NameAB == <<"A", " ", "B">>
NameBA == <<"B", ",", " ", "A">>

\* the values of bib["author"] the data source gives
AuthorFields ==
    { Missing,
      NameAB,
      NameBA,
      Join(AndSep, <<NameAB, NameBA>>),
      Join(AndSep, <<Madonna, NameAB>>) }

\* the publications of a profile: p.pub_year and p.author are the entries of
\* p["bib"], which scholarly.fill completes without changing them
Publications == [pub_year : {Missing, Y2024, Y2025}, author : AuthorFields]

\* --years-back
YearsBack == {-1, 0, 1}

\* profile.get("name", None)
ProfileNames == {NameAB, NameBA, Madonna, None}

\* int(p.get("bib", {}).get("pub_year", current_year))
PubYearInt(p) ==
    IF p.pub_year = Missing THEN current_year ELSE ParseInt(p.pub_year)

RetainedStrictly(p, cutoff) == PubYearInt(p) > cutoff

Retained(p, cutoff) == PubYearInt(p) >= cutoff

FilterPapers(ps, cutoff) == SelectSeq(ps, LAMBDA p : Retained(p, cutoff))

\* paper_full["bib"].get("pub_year", "Unknown")
PaperYear(p) == IF p.pub_year = Missing THEN Unknown ELSE p.pub_year

YearsOverwritten(years, paper_year) == {paper_year}

\* unique_coauthors[coauthor].add(paper_year)
YearsAdded(years, paper_year) == years \cup {paper_year}

\* the loop over the co-authors of one paper
RECURSIVE AddCoauthors(_, _, _, _)
AddCoauthors(d, names, paper_year, me) ==
    IF names = <<>> THEN d
    ELSE LET coauthor == Head(names)
             next == IF coauthor = me THEN d
                     ELSE IF DictHas(d, coauthor)
                          THEN DictSet(d, coauthor,
                                       YearsAdded(DictGet(d, coauthor), paper_year))
                          ELSE DictSet(d, coauthor, {paper_year})
         IN  AddCoauthors(next, Tail(names), paper_year, me)

\* { _nsf_name_cleanup([name])[0]: titles for name, titles in d.items() }
RECURSIVE CleanedKeys(_, _)
CleanedKeys(d, acc) ==
    IF d = <<>> THEN acc
    ELSE CleanedKeys(Tail(d),
                     DictSet(acc, nsf_name_cleanup(<<Head(d)[1]>>)[1], Head(d)[2]))

----------------------------------------------------------------------------
(* _get_validated_affiliations and save_coa_tsv *)

MIT == <<"M", "I", "T">>

\* the keys of the dict handed over by _get_unique_coauthors, in its order
CoauthorKeys == <<ReorderedName(NameAB), Madonna, PublicJaneQ>>

\* the year sets _get_unique_coauthors builds: never empty
YearSets == (SUBSET {Unknown, Y2024, Y2025}) \ {{}}

\* the dicts of n co-authors
CoauthorDicts(n) ==
    {[i \in 1..n |-> <<CoauthorKeys[i], ys[i]>>] : ys \in [1..n -> YearSets]}

\* what scholarly.fill returns for a search result
Candidates ==
    [affiliation : {Missing, MIT},
     publications : SeqsUpTo([pub_year : {Missing, Y2024, Y2025}], MaxPubs)]

\* max(pub_years) raises TypeError when the set mixes int years with "Unknown"
MaxRaises(pub_years, type) ==
    /\ type = "int"
    /\ Unknown \in pub_years
    /\ pub_years # {Unknown}

\* max(pub_years): on int years by value, on str by the ordering of strings
MaxYear(pub_years, type) ==
    IF type = "int" /\ Unknown \notin pub_years
    THEN CHOOSE m \in pub_years : \A y \in pub_years : ParseInt(y) <= ParseInt(m)
    ELSE CHOOSE m \in pub_years : \A y \in pub_years : ~StrLess(m, y)

LatestPubYearOldest(pub_years, type) ==
    IF pub_years # {}
    THEN CHOOSE m \in pub_years : \A y \in pub_years : ~StrLess(y, m)
    ELSE Unknown

\* max(pub_years) if pub_years else "Unknown"
LatestPubYear(pub_years, type) ==
    IF pub_years # {} THEN MaxYear(pub_years, type) ELSE Unknown

\* author_filled.get("affiliation", "Unknown Institution")
AffiliationOf(author_filled) ==
    IF author_filled.affiliation = Missing
    THEN UnknownInstitution
    ELSE author_filled.affiliation

\* pub.get("bib", {}).get("pub_year", "Unknown")
CandidatePubYear(pub) == IF pub.pub_year = Missing THEN Unknown ELSE pub.pub_year

\* the loop over the publications of one candidate
RECURSIVE ValidatedBy(_, _, _, _)
ValidatedBy(pubs, pub_years, affiliation, current) ==
    IF pubs = <<>> THEN current
    ELSE IF CandidatePubYear(Head(pubs)) \in pub_years
         THEN affiliation
         ELSE ValidatedBy(Tail(pubs), pub_years, affiliation, current)

ErrorEntryDropped(d, coauthor) == d

\* the except clause: coauthors_with_affiliations[coauthor] = (...)
ErrorEntry(d, coauthor) == DictSet(d, coauthor, <<UnknownInstitution, Unknown>>)

Marker == <<"A", ":">>

SaveRowsYearFirst(d) ==
    [i \in 1..Len(d) |-> <<Marker, d[i][1], d[i][2][2], <<>>, d[i][2][1]>>]

\* writer.writerow(["A:", name, affiliation, "", pub_date]) for every item
SaveRows(d) ==
    [i \in 1..Len(d) |-> <<Marker, d[i][1], d[i][2][1], <<>>, d[i][2][2]>>]

----------------------------------------------------------------------------
(* The states before a stage runs *)

CleanIdle ==
    /\ coauthors = <<>>
    /\ cleaned_coauthors = <<>>

ExtractIdle ==
    /\ papers = <<>>
    /\ year_cutoff = current_year
    /\ my_name = None
    /\ filtered_papers = <<>>
    /\ paper_i = 1
    /\ unique_coauthors = <<>>

ValidateIdle ==
    /\ year_type = "str"
    /\ idx = 1
    /\ validated_affiliation = UnknownInstitution
    /\ latest_pub_year = Unknown
    /\ examined = <<>>
    /\ outcome = <<>>
    /\ events = <<>>
    /\ coauthors_with_affiliations = <<>>
    /\ rows = <<>>

----------------------------------------------------------------------------
(* SpecClean: _nsf_name_cleanup *)

InitClean ==
    /\ pc = "cleanup"
    /\ coauthors \in SeqsUpTo(CleanupNames, MaxNames)
    /\ cleaned_coauthors = <<>>
    /\ ExtractIdle
    /\ coauthors_with_years = <<>>
    /\ ValidateIdle

NsfNameCleanup ==
    /\ pc = "cleanup"
    /\ cleaned_coauthors' = nsf_name_cleanup(coauthors)
    /\ pc' = "cleaned"
    /\ UNCHANGED <<coauthors, extractVars, coauthors_with_years, validateVars>>

NextClean == NsfNameCleanup

SpecClean == InitClean /\ [][NextClean]_vars

----------------------------------------------------------------------------
(* SpecExtract: _get_unique_coauthors *)

InitExtract ==
    /\ pc = "filter"
    /\ papers \in SeqsUpTo(Publications, MaxPapers)
    /\ year_cutoff \in {current_year - years_back : years_back \in YearsBack}
    /\ my_name \in ProfileNames
    /\ filtered_papers = <<>>
    /\ paper_i = 1
    /\ unique_coauthors = <<>>
    /\ coauthors_with_years = <<>>
    /\ CleanIdle
    /\ ValidateIdle

FilterByYear ==
    /\ pc = "filter"
    /\ filtered_papers' = FilterPapers(papers, year_cutoff)
    /\ pc' = "papers"
    /\ UNCHANGED <<cleanVars, papers, year_cutoff, my_name, paper_i, unique_coauthors,
                   coauthors_with_years, validateVars>>

ProcessPaper ==
    /\ pc = "papers"
    /\ paper_i <= Len(filtered_papers)
    /\ LET paper_full == filtered_papers[paper_i]
       IN  unique_coauthors' =
               IF paper_full.author # Missing
               THEN AddCoauthors(unique_coauthors, Split(paper_full.author, AndSep),
                                 PaperYear(paper_full), my_name)
               ELSE unique_coauthors
    /\ paper_i' = paper_i + 1
    /\ UNCHANGED <<pc, cleanVars, papers, year_cutoff, my_name, filtered_papers,
                   coauthors_with_years, validateVars>>

ReturnCoauthors ==
    /\ pc = "papers"
    /\ paper_i > Len(filtered_papers)
    /\ coauthors_with_years' = CleanedKeys(unique_coauthors, <<>>)
    /\ pc' = "extracted"
    /\ UNCHANGED <<cleanVars, extractVars, validateVars>>

NextExtract ==
    \/ FilterByYear
    \/ ProcessPaper
    \/ ReturnCoauthors

SpecExtract == InitExtract /\ [][NextExtract]_vars

----------------------------------------------------------------------------
(* Spec: _get_validated_affiliations, then save_coa_tsv *)

Init ==
    /\ pc = "search"
    /\ coauthors_with_years \in UNION {CoauthorDicts(n) : n \in 0..MaxCoauthors}
    /\ year_type \in {"str", "int"}
    /\ idx = 1
    /\ validated_affiliation = UnknownInstitution
    /\ latest_pub_year = Unknown
    /\ examined = <<>>
    /\ outcome = <<>>
    /\ events = <<>>
    /\ coauthors_with_affiliations = <<>>
    /\ rows = <<>>
    /\ CleanIdle
    /\ ExtractIdle

\* the except clause of the loop body: the sleep of the try block is not reached
HandleError ==
    /\ coauthors_with_affiliations' =
           ErrorEntry(coauthors_with_affiliations, coauthors_with_years[idx][1])
    /\ outcome' = Append(outcome, "error")
    /\ idx' = idx + 1
    /\ pc' = "search"

\* scholarly.search_author, then max(pub_years), which may raise
SearchAuthor ==
    /\ pc = "search"
    /\ idx <= Len(coauthors_with_years)
    /\ events' = Append(events, "search")
    /\ examined' = <<>>
    /\ LET pub_years == coauthors_with_years[idx][2]
       IN  IF MaxRaises(pub_years, year_type)
           THEN /\ HandleError
                /\ UNCHANGED <<validated_affiliation, latest_pub_year>>
           ELSE /\ validated_affiliation' = UnknownInstitution
                /\ latest_pub_year' = LatestPubYear(pub_years, year_type)
                /\ pc' = "candidates"
                /\ UNCHANGED <<idx, outcome, coauthors_with_affiliations>>
    /\ UNCHANGED <<cleanVars, extractVars, coauthors_with_years, year_type, rows>>

\* scholarly.search_author raises
SearchAuthorRaises ==
    /\ pc = "search"
    /\ idx <= Len(coauthors_with_years)
    /\ events' = Append(events, "search")
    /\ examined' = <<>>
    /\ HandleError
    /\ UNCHANGED <<cleanVars, extractVars, coauthors_with_years, year_type,
                   validated_affiliation, latest_pub_year, rows>>

\* one iteration of the loop over search_results
NextCandidate ==
    /\ pc = "candidates"
    /\ Len(examined) < MaxCandidates
    /\ \E author_filled \in Candidates :
          LET pub_years == coauthors_with_years[idx][2]
              affiliation == AffiliationOf(author_filled)
              validated == ValidatedBy(author_filled.publications, pub_years,
                                       affiliation, validated_affiliation)
              matched == \E i \in 1..Len(author_filled.publications) :
                             CandidatePubYear(author_filled.publications[i]) \in pub_years
          IN  /\ validated_affiliation' = validated
              /\ examined' = Append(examined,
                                    [affiliation |-> affiliation, matched |-> matched])
              /\ pc' = IF validated # UnknownInstitution THEN "record" ELSE "candidates"
    /\ UNCHANGED <<cleanVars, extractVars, coauthors_with_years, year_type, idx,
                   latest_pub_year, outcome, events, coauthors_with_affiliations, rows>>

\* scholarly.fill of a search result, or the search generator, raises
CandidateRaises ==
    /\ pc = "candidates"
    /\ Len(examined) < MaxCandidates
    /\ HandleError
    /\ UNCHANGED <<cleanVars, extractVars, coauthors_with_years, year_type,
                   validated_affiliation, latest_pub_year, examined, events, rows>>

\* after the loop over search_results: record the result, then time.sleep(1)
RecordResult ==
    /\ pc \in {"candidates", "record"}
    /\ coauthors_with_affiliations' =
           DictSet(coauthors_with_affiliations, coauthors_with_years[idx][1],
                   <<validated_affiliation, latest_pub_year>>)
    /\ events' = Append(events, "sleep")
    /\ outcome' = Append(outcome, "recorded")
    /\ idx' = idx + 1
    /\ pc' = "search"
    /\ UNCHANGED <<cleanVars, extractVars, coauthors_with_years, year_type,
                   validated_affiliation, latest_pub_year, examined, rows>>

\* the loop is over: save_coa_tsv(coauthors_with_affiliations)
SaveCoaTsv ==
    /\ pc = "search"
    /\ idx > Len(coauthors_with_years)
    /\ rows' = SaveRows(coauthors_with_affiliations)
    /\ pc' = "done"
    /\ UNCHANGED <<cleanVars, extractVars, coauthors_with_years, year_type, idx,
                   validated_affiliation, latest_pub_year, examined, outcome, events,
                   coauthors_with_affiliations>>

Next ==
    \/ SearchAuthor
    \/ SearchAuthorRaises
    \/ NextCandidate
    \/ CandidateRaises
    \/ RecordResult
    \/ SaveCoaTsv

Spec == Init /\ [][Next]_vars

----------------------------------------------------------------------------
(* Properties of _nsf_name_cleanup, checked under SpecClean *)

\* the position of the last space of s, 0 when s has none
LastSpace(s) ==
    IF \E i \in 1..Len(s) : s[i] = " "
    THEN CHOOSE i \in 1..Len(s) : s[i] = " " /\ \A j \in (i + 1)..Len(s) : s[j] # " "
    ELSE 0

\* 'tn, t1 ... tn-1': what follows the last space, then what precedes it
LastTokenFirst(s) ==
    IF LastSpace(s) = 0 THEN s
    ELSE SubSeq(s, LastSpace(s) + 1, Len(s)) \o CommaSpace
         \o SubSeq(s, 1, LastSpace(s) - 1)

\* C4: a name of two or more space-separated tokens becomes its last token, ", ",
\* then the other tokens in their order; a single-token name is unchanged; the list
\* returned has the length and the order of the list given.
C4_NameReformatting ==
    pc = "cleaned" =>
        /\ Len(cleaned_coauthors) = Len(coauthors)
        /\ \A i \in 1..Len(coauthors) :
               cleaned_coauthors[i] = LastTokenFirst(coauthors[i])

C4_Witness ==
    /\ pc = "cleaned"
    /\ coauthors = <<JaneQPublic, Madonna>>
    /\ cleaned_coauthors = <<PublicJaneQ, Madonna>>

----------------------------------------------------------------------------
(* Properties of _get_unique_coauthors, checked under SpecExtract *)

\* C1 as claimed: the filter keeps exactly the publications whose year is at least
\* the cutoff or is missing, a missing year being kept whatever the cutoff.
C1_MissingYearAlwaysKept ==
    pc # "filter" =>
        filtered_papers =
            SelectSeq(papers, LAMBDA p : \/ p.pub_year = Missing
                                         \/ ParseInt(p.pub_year) >= year_cutoff)

\* C1 as amended: the filter keeps exactly the publications whose year is at least
\* the cutoff (the cutoff year included) and, when the cutoff is not later than the
\* current year, those whose year is missing; it drops every other publication.
C1_FilterByYear ==
    pc # "filter" =>
        filtered_papers =
            SelectSeq(papers, LAMBDA p : IF p.pub_year = Missing
                                         THEN year_cutoff <= current_year
                                         ELSE ParseInt(p.pub_year) >= year_cutoff)

C1_Witness ==
    /\ pc = "papers"
    /\ Len(papers) = 2
    /\ papers[1].pub_year = Missing
    /\ papers[2].pub_year # Missing
    /\ ParseInt(papers[2].pub_year) < year_cutoff
    /\ filtered_papers = <<papers[1]>>

\* the names in the author field of a publication
AuthorsOf(p) ==
    IF p.author = Missing THEN {}
    ELSE LET names == Split(p.author, AndSep)
         IN  {names[i] : i \in 1..Len(names)}

\* the co-authors of the retained publications
CoauthorNames ==
    (UNION {AuthorsOf(filtered_papers[i]) : i \in 1..Len(filtered_papers)}) \ {my_name}

\* the years of the retained publications whose author field has the name
SharedYears(name) ==
    {PaperYear(filtered_papers[i]) :
        i \in {j \in 1..Len(filtered_papers) : name \in AuthorsOf(filtered_papers[j])}}

\* C2: every co-author name of the retained publications has exactly one entry in
\* the dict returned, under its reformatted name, and the entry's year set is the
\* union of the years of the retained publications that name it.
C2_DedupUnionOfYears ==
    pc = "extracted" =>
        /\ Len(coauthors_with_years) = Cardinality(CoauthorNames)
        /\ \A name \in CoauthorNames :
               LET entries == {i \in 1..Len(coauthors_with_years) :
                                  coauthors_with_years[i][1] = ReorderedName(name)}
               IN  /\ Cardinality(entries) = 1
                   /\ \A i \in entries :
                          coauthors_with_years[i][2] = SharedYears(name)

C2_Witness ==
    /\ pc = "extracted"
    /\ Len(filtered_papers) = 2
    /\ \E i \in 1..Len(coauthors_with_years) :
           coauthors_with_years[i][2] = {Y2024, Y2025}

\* C3: the subject's name is no key of the dict returned, neither as the profile
\* gives it nor reformatted.
C3_SubjectNeverInOutput ==
    (pc = "extracted" /\ my_name # None) =>
        \A i \in 1..Len(coauthors_with_years) :
            /\ coauthors_with_years[i][1] # my_name
            /\ coauthors_with_years[i][1] # ReorderedName(my_name)

----------------------------------------------------------------------------
(* Properties of _get_validated_affiliations and save_coa_tsv, checked under Spec *)

\* the lookup of co-author idx - 1 has just ended without an error
JustRecorded ==
    /\ pc \in {"search", "done"}
    /\ idx > 1
    /\ outcome[idx - 1] = "recorded"

SomeMatched == \E k \in 1..Len(examined) : examined[k].matched

FirstMatched == CHOOSE k \in 1..Len(examined) :
                    /\ examined[k].matched
                    /\ \A j \in 1..(k - 1) : ~examined[j].matched

\* the greatest numeric year of a year set that has one
GreatestYear(pub_years) ==
    CHOOSE m \in pub_years \ {Unknown} :
        \A y \in pub_years \ {Unknown} : ParseInt(y) <= ParseInt(m)

\* C5: in a lookup that raises no error, the first candidate with a publication
\* year in the co-author's year set wins: its affiliation is recorded and no later
\* candidate is filled.
C5_FirstMatchWins ==
    (JustRecorded /\ SomeMatched) =>
        /\ Len(examined) = FirstMatched
        /\ coauthors_with_affiliations[idx - 1][2][1] = examined[FirstMatched].affiliation

\* C6 as claimed: a lookup without error in which no candidate has a publication
\* year in the year set records ("Unknown Institution", "Unknown").
C6_UnvalidatedIsUnknownUnknown ==
    (JustRecorded /\ ~SomeMatched) =>
        coauthors_with_affiliations[idx - 1][2] = <<UnknownInstitution, Unknown>>

\* C6 as amended: such a lookup records "Unknown Institution" with the latest year
\* of the year set: "Unknown" if the set has it, else the greatest year.
C6_UnvalidatedKeepsLatestYear ==
    (JustRecorded /\ ~SomeMatched) =>
        LET pub_years == coauthors_with_years[idx - 1][2]
        IN  coauthors_with_affiliations[idx - 1][2] =
                <<UnknownInstitution,
                  IF Unknown \in pub_years THEN Unknown ELSE GreatestYear(pub_years)>>

C6_Witness ==
    /\ JustRecorded
    /\ Len(examined) = 2
    /\ ~SomeMatched
    /\ coauthors_with_years[idx - 1][2] = {Y2024, Y2025}
    /\ coauthors_with_affiliations[idx - 1][2] = <<UnknownInstitution, Y2025>>

\* C7: a lookup that raises is recorded as ("Unknown Institution", "Unknown"), the
\* loop goes on, and the dict has one entry for every co-author looked up so far, in
\* the order of the input, hence for every co-author when the function returns.
C7_ErrorIsolation ==
    /\ Len(outcome) = idx - 1
    /\ DictKeys(coauthors_with_affiliations)
           = SubSeq(DictKeys(coauthors_with_years), 1, idx - 1)
    /\ \A i \in 1..Len(outcome) :
           outcome[i] = "error" =>
               coauthors_with_affiliations[i][2] = <<UnknownInstitution, Unknown>>
    /\ pc = "done" => idx - 1 = Len(coauthors_with_years)
    /\ pc # "done" => ENABLED Next

C7_Witness ==
    /\ pc = "done"
    /\ outcome = <<"error", "recorded">>
    /\ coauthors_with_affiliations[1][2] = <<UnknownInstitution, Unknown>>
    /\ coauthors_with_affiliations[2][2][1] = MIT

\* C8: save_coa_tsv writes one row per entry of the dict, in its order, each row
\* being ("A:", name, affiliation, "", year) of that entry; there are as many rows
\* as co-authors.
C8_RowPerCoauthor ==
    pc = "done" =>
        /\ Len(rows) = Len(coauthors_with_affiliations)
        /\ Len(rows) = Len(coauthors_with_years)
        /\ \A i \in 1..Len(rows) :
               /\ Len(rows[i]) = 5
               /\ rows[i][1] = Marker
               /\ rows[i][2] = coauthors_with_affiliations[i][1]
               /\ rows[i][3] = coauthors_with_affiliations[i][2][1]
               /\ rows[i][4] = <<>>
               /\ rows[i][5] = coauthors_with_affiliations[i][2][2]

C8_Witness ==
    /\ pc = "done"
    /\ rows = << <<Marker, CoauthorKeys[1], MIT, <<>>, Y2025>>,
                 <<Marker, CoauthorKeys[2], UnknownInstitution, <<>>, Y2024>> >>

\* C9: for a co-author whose year set has a numeric year and whose lookup raised
\* no error, the year recorded is the greatest numeric year of the set, also when
\* the set has "Unknown".
C9_LatestNumericYear ==
    \A i \in 1..Len(outcome) :
        LET pub_years == coauthors_with_years[i][2]
        IN  (outcome[i] = "recorded" /\ pub_years # {Unknown}) =>
                coauthors_with_affiliations[i][2][2] = GreatestYear(pub_years)

\* C10: between the search for one co-author and the search for the next, the
\* sleep is taken.
C10_SleepBetweenSearches ==
    \A i \in 1..(Len(events) - 1) :
        events[i] = "search" => events[i + 1] = "sleep"

====
